---------------------------- MODULE Spec2Model ----------------------------
(***************************************************************************)
(* Announcement endpoints of the school management API                     *)
(* (src/backend/routers/announcements.py): get_announcements,              *)
(* create_announcement, update_announcement, delete_announcement and the   *)
(* require_auth dependency, over the announcements and teachers            *)
(* collections of the document store.                                      *)
(*                                                                         *)
(* Strings are sequences of character codes, so that the store's           *)
(* comparison of timestamps is the lexical one.  None is a value that is   *)
(* no string.  A document is a record whose fields are the document's      *)
(* keys; its _id is either a string the writer chose or an ObjectId the    *)
(* store generated on insert_one, and the two kinds never compare equal.   *)
(***************************************************************************)
EXTENDS Integers, Sequences, FiniteSets, TLC

VARIABLES
    store,        \* announcements_collection: a set of documents
    nextOid,      \* the next ObjectId the store generates
    req,          \* the request handled last
    resp,         \* what the handler returned or raised for it
    before,       \* announcements_collection when that request arrived
    justCreated,  \* the record a successful create returned, while it is the last request
                  \* or the one right before a list
    pc,           \* concurrent requests: each request's position in its handler
    preq,         \* concurrent requests: each request's arguments
    pres          \* concurrent requests: each request's outcome

vars == <<store, nextOid, req, resp, before, justCreated, pc, preq, pres>>

seqVars == <<req, resp, before, justCreated>>
concVars == <<pc, preq, pres>>

(***************************************************************************)
(* Bounds                                                                  *)
(***************************************************************************)
\* how many documents insert_one may add in one behaviour
MaxCreates == 2
\* how many requests are in flight at once in the interleaved specification
MaxProcs == 2

(***************************************************************************)
(* Values                                                                  *)
(***************************************************************************)
\* Python's None: the one value of the model that is not a string
None == <<0>>

\* the empty string ""
EmptyStr == <<>>

\* the strings "1", "12" and "2": "1" < "12" < "2" lexically, while 2 < 12
T1 == <<49>>
T12 == <<49, 50>>
T2 == <<50>>

\* the strings "a" and "b"
MsgA == <<97>>
MsgB == <<98>>

\* the strings "t1", "t2" (teachers) and "zz" (nobody)
UserT1 == <<116, 49>>
UserT2 == <<116, 50>>
UserZZ == <<122, 122>>

\* the string "s1" (the key of a document written with a string _id)
KeyS1 == <<115, 49>>

\* mutant: the check reads "is None", so that "" passes
FalsyNoneOnly(v) == v = None

\* mutant: the check is missing
FalsyNever(v) == FALSE

\* Python truthiness of an Optional[str]: None and "" are falsy
Falsy(v) == v = None \/ v = EmptyStr

RECURSIVE StrLe(_, _)
\* a <= b for two strings: the lexical order of their character codes
StrLe(a, b) ==
    IF a = <<>> THEN TRUE
    ELSE IF b = <<>> THEN FALSE
    ELSE IF Head(a) < Head(b) THEN TRUE
    ELSE IF Head(a) > Head(b) THEN FALSE
    ELSE StrLe(Tail(a), Tail(b))

(***************************************************************************)
(* Document keys                                                           *)
(***************************************************************************)
\* an _id the store generated: an ObjectId
ObjectId(n) == [kind |-> "oid", val |-> <<n>>]

\* an _id that is a string
StrKey(s) == [kind |-> "str", val |-> s]

\* one lower-case hexadecimal digit as a character code
HexDigit(d) == IF d < 10 THEN 48 + d ELSE 87 + d

RECURSIVE HexDigits(_, _)
\* n as len hexadecimal digits, most significant first
HexDigits(n, len) ==
    IF len = 0 THEN <<>>
    ELSE Append(HexDigits(n \div 16, len - 1), HexDigit(n % 16))

\* str(_id): the 24 hexadecimal digits of an ObjectId, a string itself
Str(key) == IF key.kind = "oid" THEN HexDigits(key.val[1], 24) ELSE key.val

(***************************************************************************)
(* The teachers collection and require_auth                                *)
(***************************************************************************)
\* teachers_collection: each teacher is stored under _id = username
teachers_collection ==
    { [_id |-> StrKey(UserT1), username |-> UserT1],
      [_id |-> StrKey(UserT2), username |-> UserT2] }

\* what find_one returns when no document matches (Python's None)
NoDoc == [none |-> TRUE]

\* collection.find_one({"_id": s}) with s a string
find_one(coll, s) ==
    IF \E d \in coll : d._id = StrKey(s)
    THEN CHOOSE d \in coll : d._id = StrKey(s)
    ELSE NoDoc

\* raise HTTPException(status_code, detail)
HTTPException(code, detail) == [status |-> code, detail |-> detail]

\* a handler's return value
Returned(body) == [status |-> 200, body |-> body]

\* mutant: the caller's identity string is trusted without the lookup
require_auth_unchecked(username) ==
    [_id |-> StrKey(username), username |-> username]

\* require_auth: the teacher document, or NoDoc when the 401 is raised
require_auth(username) == find_one(teachers_collection, username)

(***************************************************************************)
(* The announcements collection: the store calls the handlers make         *)
(***************************************************************************)
\* a document written to the collection under a string _id (as the API's own
\* filter {"_id": announcement_id} expects), not by create_announcement; it
\* has no start_date field
Seed1 ==
    [_id |-> StrKey(KeyS1), message |-> MsgA, expiration_date |-> T1,
     created_by |-> UserT2]
SeedDocs == {Seed1}

\* the document d with field f set to v
WithField(d, f, v) ==
    [g \in DOMAIN d \cup {f} |-> IF g = f THEN v ELSE d[g]]

\* the document d without field f
WithoutField(d, f) == [g \in DOMAIN d \ {f} |-> d[g]]

\* {"start_date": None}: the field is null or missing
MatchesNone(d, f) == f \notin DOMAIN d \/ d[f] = None

\* {f: {"$lte": s}}: the field is a string and is <= s
MatchesLte(d, f, s) == f \in DOMAIN d /\ d[f] # None /\ StrLe(d[f], s)

\* mutant: "$gt" for "$gte"
MatchesGt(d, f, s) == f \in DOMAIN d /\ d[f] # None /\ ~StrLe(d[f], s)

\* {f: {"$gte": s}}: the field is a string and is >= s
MatchesGte(d, f, s) == f \in DOMAIN d /\ d[f] # None /\ StrLe(s, d[f])

\* the query of get_announcements when active_only is set
ActiveQuery(d, now) ==
    /\ MatchesNone(d, "start_date") \/ MatchesLte(d, "start_date", now)
    /\ MatchesGte(d, "expiration_date", now)

\* collection.find(query): query = {} matches every document
find(st, active_only, now) ==
    IF active_only THEN {d \in st : ActiveQuery(d, now)} ELSE st

\* mutant: the id is read from the wrong key, ann.get("id", "")
ShapeWrongKey(ann) ==
    WithoutField(WithField(ann, "id", EmptyStr), "_id")

\* ann["id"] = str(ann.get("_id", "")); ann.pop("_id", None)
Shape(ann) ==
    WithoutField(
        WithField(ann, "id",
                  IF "_id" \in DOMAIN ann THEN Str(ann._id) ELSE EmptyStr),
        "_id")

\* collection.insert_one(ann): the store generates an ObjectId for a
\* document without _id and adds it to the caller's dict as well
insert_one(st, oid, ann) ==
    LET doc == WithField(ann, "_id", ObjectId(oid)) IN
    [store |-> st \cup {doc}, inserted_id |-> ObjectId(oid), ann |-> doc]

\* mutant: the update document replaces the stored one (no "$set")
ReplaceFields(d, update) ==
    [g \in {"_id"} \cup DOMAIN update |->
        IF g \in DOMAIN update THEN update[g] ELSE d[g]]

\* {"$set": update} applied to one document
SetFields(d, update) ==
    [g \in DOMAIN d \cup DOMAIN update |->
        IF g \in DOMAIN update THEN update[g] ELSE d[g]]

\* collection.update_one({"_id": id}, {"$set": update}) with id a string
update_one(st, id, update) ==
    LET matched == {d \in st : d._id = StrKey(id)} IN
    [store |-> (st \ matched) \cup {SetFields(d, update) : d \in matched},
     matched_count |-> Cardinality(matched)]

\* collection.delete_one({"_id": id}) with id a string
delete_one(st, id) ==
    LET matched == {d \in st : d._id = StrKey(id)} IN
    [store |-> st \ matched, deleted_count |-> Cardinality(matched)]

(***************************************************************************)
(* The handlers, each from the store it finds to the store it leaves and   *)
(* what it returns or raises                                               *)
(***************************************************************************)
\* an exception no handler catches (the framework answers 500)
Unhandled(what) == [status |-> 500, detail |-> what]

get_announcements(st, active_only, now) ==
    [store |-> st,
     resp |-> Returned({Shape(d) : d \in find(st, active_only, now)})]

create_announcement(st, oid, message, expiration_date, start_date, username) ==
    LET user == require_auth(username) IN
    IF user = NoDoc
    THEN [store |-> st, resp |-> HTTPException(401, "Authentication required")]
    ELSE IF Falsy(expiration_date)
    THEN [store |-> st, resp |-> HTTPException(400, "Expiration date required")]
    ELSE LET ann == [message |-> message, start_date |-> start_date,
                     expiration_date |-> expiration_date,
                     created_by |-> user.username]
             result == insert_one(st, oid, ann)
         IN [store |-> result.store,
             resp |-> Returned(WithField(result.ann, "id", Str(result.inserted_id)))]

\* mutant: message is copied without the "is not None" test
UpdateDocMessageAlways(message, expiration_date, start_date) ==
    LET arg == [message |-> message, expiration_date |-> expiration_date,
                start_date |-> start_date]
    IN [f \in {g \in DOMAIN arg : g = "message" \/ arg[g] # None} |-> arg[f]]

\* the update document: the fields whose argument is not None
UpdateDoc(message, expiration_date, start_date) ==
    LET arg == [message |-> message, expiration_date |-> expiration_date,
                start_date |-> start_date]
    IN [f \in {g \in DOMAIN arg : arg[g] # None} |-> arg[f]]

\* lines 83-86: read the document back and shape it
ReadBack(st, announcement_id) ==
    LET ann == find_one(st, announcement_id) IN
    IF ann = NoDoc
    THEN Unhandled("AttributeError: 'NoneType' object has no attribute 'get'")
    ELSE Returned(Shape(ann))

update_announcement(st, announcement_id, message, expiration_date, start_date, username) ==
    LET user == require_auth(username)
        update == UpdateDoc(message, expiration_date, start_date)
        result == update_one(st, announcement_id, update)
    IN
    IF user = NoDoc
    THEN [store |-> st, resp |-> HTTPException(401, "Authentication required")]
    ELSE IF DOMAIN update = {}
    THEN [store |-> st, resp |-> HTTPException(400, "No update fields provided")]
    ELSE IF result.matched_count = 0
    THEN [store |-> result.store,
          resp |-> HTTPException(404, "Announcement not found")]
    ELSE [store |-> result.store, resp |-> ReadBack(result.store, announcement_id)]

delete_announcement(st, announcement_id, username) ==
    LET user == require_auth(username)
        result == delete_one(st, announcement_id)
    IN
    IF user = NoDoc
    THEN [store |-> st, resp |-> HTTPException(401, "Authentication required")]
    ELSE IF result.deleted_count = 0
    THEN [store |-> result.store,
          resp |-> HTTPException(404, "Announcement not found")]
    ELSE [store |-> result.store,
          resp |-> Returned([message |-> "Announcement deleted"])]

(***************************************************************************)
(* Inputs                                                                  *)
(***************************************************************************)
Usernames == {UserT1, UserZZ}
Nows == {T1, T12, T2}
CreateMessages == {MsgA}
CreateExpirations == {None, EmptyStr, T2}
CreateStarts == {None, T12}
UpdateMessages == {None, MsgB}
UpdateExpirations == {None, EmptyStr}
UpdateStarts == {None, T2}
\* path parameters: the string key, the ids create returns, and an id of nothing
AnnouncementIds ==
    {KeyS1, UserZZ} \cup {Str(ObjectId(n)) : n \in 1..MaxCreates}

Procs == 1..MaxProcs

(***************************************************************************)
(* Requests handled one at a time                                          *)
(***************************************************************************)
NoRequest == [op |-> "none"]

Init ==
    /\ store \in SUBSET SeedDocs
    /\ nextOid = 1
    /\ req = NoRequest
    /\ resp = NoRequest
    /\ before = store
    /\ justCreated = NoDoc
    /\ pc = [p \in Procs |-> "idle"]
    /\ preq = [p \in Procs |-> NoRequest]
    /\ pres = [p \in Procs |-> NoRequest]

InitEmpty ==
    /\ Init
    /\ store = {}

\* the handler's outcome becomes the state
Handled(r, out) ==
    /\ req' = r
    /\ resp' = out.resp
    /\ before' = store
    /\ store' = out.store
    /\ UNCHANGED concVars

GetAnnouncements ==
    \E active_only \in BOOLEAN, now \in Nows :
        /\ Handled([op |-> "list", active_only |-> active_only, now |-> now],
                   get_announcements(store, active_only, now))
        /\ justCreated' = IF req.op = "create" THEN justCreated ELSE NoDoc
        /\ UNCHANGED nextOid

CreateAnnouncement ==
    \E message \in CreateMessages, expiration_date \in CreateExpirations,
       start_date \in CreateStarts, username \in Usernames :
        LET out == create_announcement(store, nextOid, message, expiration_date,
                                       start_date, username)
        IN /\ out.store # store => nextOid <= MaxCreates
           /\ Handled([op |-> "create", message |-> message,
                       expiration_date |-> expiration_date,
                       start_date |-> start_date, username |-> username], out)
           /\ nextOid' = IF out.store # store THEN nextOid + 1 ELSE nextOid
           /\ justCreated' = IF out.resp.status = 200 THEN out.resp.body ELSE NoDoc

UpdateAnnouncement ==
    \E announcement_id \in AnnouncementIds, message \in UpdateMessages,
       expiration_date \in UpdateExpirations, start_date \in UpdateStarts,
       username \in Usernames :
        /\ Handled([op |-> "update", announcement_id |-> announcement_id,
                    message |-> message, expiration_date |-> expiration_date,
                    start_date |-> start_date, username |-> username],
                   update_announcement(store, announcement_id, message,
                                       expiration_date, start_date, username))
        /\ justCreated' = NoDoc
        /\ UNCHANGED nextOid

DeleteAnnouncement ==
    \E announcement_id \in AnnouncementIds, username \in Usernames :
        /\ Handled([op |-> "delete", announcement_id |-> announcement_id,
                    username |-> username],
                   delete_announcement(store, announcement_id, username))
        /\ justCreated' = NoDoc
        /\ UNCHANGED nextOid

Next ==
    \/ GetAnnouncements
    \/ CreateAnnouncement
    \/ UpdateAnnouncement
    \/ DeleteAnnouncement

Spec == Init /\ [][Next]_vars

SpecEmpty == InitEmpty /\ [][Next]_vars

(***************************************************************************)
(* Requests handled concurrently: each store call is one atomic step, and  *)
(* the steps of different requests interleave                              *)
(***************************************************************************)
\* request p is at position at, with outcome out (NoRequest while it runs)
Goes(p, at, out) ==
    /\ pc' = [pc EXCEPT ![p] = at]
    /\ pres' = [pres EXCEPT ![p] = out]

\* get_announcements: its one store call, find
ListFind(p) ==
    /\ pc[p] = "idle"
    /\ \E active_only \in BOOLEAN, now \in Nows :
          /\ preq' = [preq EXCEPT ![p] = [op |-> "list",
                                          active_only |-> active_only, now |-> now]]
          /\ Goes(p, "done", get_announcements(store, active_only, now).resp)
    /\ UNCHANGED <<store, nextOid, seqVars>>

CreateRequests ==
    [op : {"create"}, message : CreateMessages, expiration_date : CreateExpirations,
     start_date : CreateStarts, username : Usernames]
UpdateRequests ==
    [op : {"update"}, announcement_id : AnnouncementIds, message : UpdateMessages,
     expiration_date : UpdateExpirations, start_date : UpdateStarts,
     username : Usernames]
DeleteRequests ==
    [op : {"delete"}, announcement_id : AnnouncementIds, username : Usernames]

\* the require_auth dependency of create, update and delete: the lookup in
\* the teachers collection, before the handler's body runs
Auth(p) ==
    /\ pc[p] = "idle"
    /\ \E r \in CreateRequests \cup UpdateRequests \cup DeleteRequests :
          /\ preq' = [preq EXCEPT ![p] = r]
          /\ IF require_auth(r.username) = NoDoc
             THEN Goes(p, "done", HTTPException(401, "Authentication required"))
             ELSE Goes(p, "authed", NoRequest)
    /\ UNCHANGED <<store, nextOid, seqVars>>

\* create_announcement, lines 50-60: the check and insert_one
CreateInsert(p) ==
    /\ pc[p] = "authed"
    /\ preq[p].op = "create"
    /\ LET r == preq[p]
           out == create_announcement(store, nextOid, r.message, r.expiration_date,
                                      r.start_date, r.username)
       IN /\ out.store # store => nextOid <= MaxCreates
          /\ store' = out.store
          /\ nextOid' = IF out.store # store THEN nextOid + 1 ELSE nextOid
          /\ Goes(p, "done", out.resp)
    /\ UNCHANGED <<preq, seqVars>>

\* update_announcement, lines 71-82: the update document and update_one
UpdateWrite(p) ==
    /\ pc[p] = "authed"
    /\ preq[p].op = "update"
    /\ LET r == preq[p]
           update == UpdateDoc(r.message, r.expiration_date, r.start_date)
           result == update_one(store, r.announcement_id, update)
       IN IF DOMAIN update = {}
          THEN /\ Goes(p, "done", HTTPException(400, "No update fields provided"))
               /\ UNCHANGED store
          ELSE /\ store' = result.store
               /\ IF result.matched_count = 0
                  THEN Goes(p, "done", HTTPException(404, "Announcement not found"))
                  ELSE Goes(p, "written", NoRequest)
    /\ UNCHANGED <<nextOid, preq, seqVars>>

\* update_announcement, lines 83-86: find_one and the shaping of what it found
UpdateReadBack(p) ==
    /\ pc[p] = "written"
    /\ Goes(p, "done", ReadBack(store, preq[p].announcement_id))
    /\ UNCHANGED <<store, nextOid, preq, seqVars>>

\* delete_announcement, lines 94-97: delete_one
DeleteOne(p) ==
    /\ pc[p] = "authed"
    /\ preq[p].op = "delete"
    /\ LET out == delete_announcement(store, preq[p].announcement_id,
                                      preq[p].username)
       IN /\ store' = out.store
          /\ Goes(p, "done", out.resp)
    /\ UNCHANGED <<nextOid, preq, seqVars>>

NextConc ==
    \E p \in Procs :
        \/ ListFind(p)
        \/ Auth(p)
        \/ CreateInsert(p)
        \/ UpdateWrite(p)
        \/ UpdateReadBack(p)
        \/ DeleteOne(p)

ConcSpec == Init /\ [][NextConc]_vars

(***************************************************************************)
(* Properties of the handlers                                              *)
(***************************************************************************)
\* the caller of the last request has a principal record
Authenticated == \E t \in teachers_collection : t._id = StrKey(req.username)

\* the display window of d contains now, by the lexical order of the strings
InWindow(d, now) ==
    /\ \/ "start_date" \notin DOMAIN d
       \/ d.start_date = None
       \/ StrLe(d.start_date, now)
    /\ d.expiration_date # None
    /\ StrLe(now, d.expiration_date)

\* C1: list(active_only=true) returns exactly the records whose start_date is
\* absent, null or <= now and whose expiration_date is >= now, in the lexical
\* order of the timestamp strings; list(active_only=false) returns every
\* stored record.
C1_ListFilter ==
    req.op = "list" =>
        /\ resp.status = 200
        /\ store = before
        /\ \A d \in before :
              Shape(d) \in resp.body <=> (~req.active_only \/ InWindow(d, req.now))
        /\ \A r \in resp.body : \E d \in before : r = Shape(d)

\* C1 happens: an active-only list that keeps a record with a start_date
\* string, keeps "12" <= "2", and drops another record
C1_Witness ==
    /\ req.op = "list"
    /\ req.active_only
    /\ req.now = T2
    /\ \E d1, d2 \in before :
          /\ "start_date" \in DOMAIN d1
          /\ d1.start_date = T12
          /\ Shape(d1) \in resp.body
          /\ Shape(d2) \notin resp.body

\* C2: create, update and delete by a caller without a principal record fail
\* with 401 whatever the other arguments are, and leave the store unchanged.
C2_AuthFirst ==
    (req.op \in {"create", "update", "delete"} /\ ~Authenticated) =>
        /\ resp = HTTPException(401, "Authentication required")
        /\ store = before

\* C2 happens: an unknown caller's create that also lacks its expiration_date
\* is answered 401, not 400
C2_Witness ==
    /\ req.op = "create"
    /\ ~Authenticated
    /\ req.expiration_date = EmptyStr
    /\ resp.status = 401
    /\ before # {}

\* C3: a successful create adds exactly one record and returns exactly the
\* fields id, message, start_date, expiration_date and created_by, with a fresh
\* id, created_by the caller's identity and no internal store key field.
C3_CreateReturnsRecord ==
    (req.op = "create" /\ resp.status = 200) =>
        /\ Cardinality(store) = Cardinality(before) + 1
        /\ before \subseteq store
        /\ DOMAIN resp.body =
              {"id", "message", "start_date", "expiration_date", "created_by"}
        /\ \A d \in before : Str(d._id) # resp.body.id
        /\ resp.body.created_by = req.username
        /\ resp.body.start_date = req.start_date
        /\ resp.body.message = req.message
        /\ resp.body.expiration_date = req.expiration_date

\* the records of a list whose id is the one the create before it returned
Listed == {r \in resp.body : r.id = justCreated.id}

\* C4: a list(active_only=false) right after a successful create holds exactly
\* one record with the returned id, with the message, start_date,
\* expiration_date and created_by create returned, and without the store's key.
C4_CreateListRoundTrip ==
    (req.op = "list" /\ ~req.active_only /\ justCreated # NoDoc) =>
        /\ Cardinality(Listed) = 1
        /\ \A r \in Listed :
              /\ r.message = justCreated.message
              /\ r.start_date = justCreated.start_date
              /\ r.expiration_date = justCreated.expiration_date
              /\ r.created_by = justCreated.created_by
              /\ "_id" \notin DOMAIN r

\* C4 happens: the list follows the second create, with three records stored
C4_Witness ==
    /\ req.op = "list"
    /\ ~req.active_only
    /\ justCreated # NoDoc
    /\ justCreated.start_date = T12
    /\ Cardinality(resp.body) = 3

\* C5: a delete by an authenticated caller of the id under which create and
\* list expose a stored record succeeds and removes that record (and a second
\* delete of that id then fails with 404).
C5_DeleteExposedId ==
    (req.op = "delete" /\ Authenticated) =>
        \A d \in before :
            Str(d._id) = req.announcement_id =>
                /\ resp = Returned([message |-> "Announcement deleted"])
                /\ store = before \ {d}

\* C6: a create by an authenticated caller whose expiration_date is empty or
\* absent fails with 400 and persists nothing.
C6_CreateNeedsExpiration ==
    (req.op = "create" /\ Authenticated /\ req.expiration_date \in {None, EmptyStr}) =>
        /\ resp = HTTPException(400, "Expiration date required")
        /\ store = before

\* C6 happens: an authenticated create with expiration_date "" after another
\* create
C6_Witness ==
    /\ req.op = "create"
    /\ Authenticated
    /\ req.expiration_date = EmptyStr
    /\ resp.status = 400
    /\ Cardinality(before) = 2

\* C7: an update by an authenticated caller that supplies no field fails with
\* 400 for every id, existing or not, and leaves the store unchanged.
C7_UpdateNeedsField ==
    (/\ req.op = "update"
     /\ Authenticated
     /\ req.message = None
     /\ req.expiration_date = None
     /\ req.start_date = None) =>
        /\ resp = HTTPException(400, "No update fields provided")
        /\ store = before

\* C7 happens: the update without fields names a stored record
C7_Witness ==
    /\ req.op = "update"
    /\ Authenticated
    /\ req.message = None
    /\ req.expiration_date = None
    /\ req.start_date = None
    /\ resp.status = 400
    /\ \E d \in before : d._id = StrKey(req.announcement_id)

\* field f of the record went from d to e as the request says: to the value
\* supplied, or kept (or kept missing) when none was supplied
FieldAsRequested(d, e, f) ==
    IF req[f] # None
    THEN f \in DOMAIN e /\ e[f] = req[f]
    ELSE /\ f \in DOMAIN e <=> f \in DOMAIN d
         /\ f \in DOMAIN d => e[f] = d[f]

\* C8: a successful update changes in the record of that id exactly the
\* supplied fields, each to the supplied value; the other fields, the id and
\* created_by keep their values, every other record is unchanged, and the
\* returned record is the stored record after the update.
C8_UpdateFrame ==
    (req.op = "update" /\ resp.status = 200) =>
        \E d \in before, e \in store :
            /\ Str(d._id) = req.announcement_id
            /\ e._id = d._id
            /\ DOMAIN e \subseteq
                  {"_id", "message", "start_date", "expiration_date", "created_by"}
            /\ "created_by" \in DOMAIN e
            /\ e.created_by = d.created_by
            /\ \A f \in {"message", "expiration_date", "start_date"} :
                  FieldAsRequested(d, e, f)
            /\ store \ {e} = before \ {d}
            /\ resp.body = Shape(e)

\* C8 happens: an update of the message alone, of a record without start_date,
\* with another record stored
C8_Witness ==
    /\ req.op = "update"
    /\ resp.status = 200
    /\ req.message = MsgB
    /\ req.start_date = None
    /\ req.expiration_date = None
    /\ Cardinality(before) >= 2
    /\ "start_date" \notin DOMAIN resp.body
    /\ resp.body.message = MsgB

\* C9: from an empty store, every stored record has an expiration_date that is
\* neither null nor the empty string.
C9_ExpirationPresent ==
    \A d \in store :
        /\ "expiration_date" \in DOMAIN d
        /\ d.expiration_date # None
        /\ d.expiration_date # EmptyStr

\* C9 happens: an authenticated update with expiration_date "" of the id
\* create returned for a stored record
C9_Witness ==
    /\ req.op = "update"
    /\ Authenticated
    /\ req.expiration_date = EmptyStr
    /\ \E d \in before : Str(d._id) = req.announcement_id

\* C10: under every interleaving of the store calls of concurrent requests,
\* every update ends with the record or with 401, 400 or 404, also when a
\* delete of the same id runs between its update_one and its find_one.
C10_UpdateEndsHandled ==
    \A p \in Procs :
        (pc[p] = "done" /\ preq[p].op = "update") =>
            pres[p].status \in {200, 401, 400, 404}

============================================================================
